---------------------------- MODULE Spec2Model ----------------------------
(***************************************************************************)
(* Ticket tracker: the SQLite ticket store (tickets / deleted_tickets),    *)
(* the priority -> due-date policy and the Streamlit page handlers of      *)
(* src/customer.py, with the update_ticket, due-date and dashboard-search  *)
(* variants of src/app.py.                                                 *)
(*                                                                         *)
(* Representation.  A TEXT column holding an enum or free text is a        *)
(* string.  A TEXT column holding a formatted date ("%m/%d/%Y") is the     *)
(* tuple <<month, day, year>> of the fields strftime prints, and the empty *)
(* text "" in such a column is the empty tuple <<>>.  A formatted time     *)
(* ("%I:%M %p") is the tuple <<hour, minute, "AM"|"PM">>.                  *)
(***************************************************************************)
EXTENDS Integers, Sequences, FiniteSets, TLC

VARIABLES
    tickets,          \* committed table tickets: id -> row
    deleted_tickets,  \* committed table deleted_tickets: id -> row
    sqlite_sequence,  \* AUTOINCREMENT high-water mark of table tickets
    now,              \* wall clock, in steps of 36 hours since Epoch
    returned,         \* history: the lastrowid of every insert_ticket, in order
    pre,              \* history: id -> the row as it was when last soft-deleted, and
                      \*   whether recover_tickets has been called on it since
    saved,            \* history: id -> priority and date of the last save, and the
                      \*   timestamps add_new gave the ticket (SpecApp)
    call,             \* outcome of the last store call (Spec)
    view,             \* per session: the DataFrame a page handler loaded (SpecApp)
    msg,              \* per session: the st.success message last shown (SpecApp)
    conn,             \* per session: open connection and its transaction (SpecTxn)
    seen,             \* per session: result of the last load_tickets (SpecTxn)
    due,              \* input and result of calculate_due_date (SpecDue)
    flt               \* input and result of the table filters (SpecFilter)

vars == <<tickets, deleted_tickets, sqlite_sequence, now, returned, pre, saved,
          call, view, msg, conn, seen, due, flt>>

-----------------------------------------------------------------------------
(* Bounds of the model *)

MaxTickets == 2
MaxIds == 2
MaxNow == 1
MaxDueDays == 430

-----------------------------------------------------------------------------
(* Enumerations of src/customer.py *)

USERS == {"Sam", "Vinny", "Daiana", "Flora", "Geetika", "Dharminder", "Graciela", "Ashu"}
COMMUNICATION == {"Informed Customer", "Waiting for Customer Response", "On Hold as per Customer"}
PRIORITY == {"Today", "Today 2", "Tomorrow", "2 days"}
STATUS == {"Open", "Started", "Completed", "Waiting on Customer", "On Hold", "Gated"}

-----------------------------------------------------------------------------
(* The calendar behind dt.datetime, dt.timedelta and strftime.  A date is  *)
(* [year, month, day]; arithmetic goes through day ordinals as Python's    *)
(* does (ordinal 0 is January 1st of BaseDate's year).                     *)

BaseDate == [year |-> 2023, month |-> 1, day |-> 1]

IsLeap(y) == (y % 4 = 0 /\ y % 100 # 0) \/ y % 400 = 0

DaysInMonth(y, m) ==
    IF m = 2 THEN (IF IsLeap(y) THEN 29 ELSE 28)
    ELSE IF m \in {4, 6, 9, 11} THEN 30 ELSE 31

RECURSIVE FromOrdinalFrom(_, _, _)
FromOrdinalFrom(n, y, m) ==
    IF n < DaysInMonth(y, m)
    THEN [year |-> y, month |-> m, day |-> n + 1]
    ELSE FromOrdinalFrom(n - DaysInMonth(y, m),
                         IF m = 12 THEN y + 1 ELSE y,
                         IF m = 12 THEN 1 ELSE m + 1)

FromOrdinal(n) == FromOrdinalFrom(n, BaseDate.year, BaseDate.month)

RECURSIVE DaysBefore(_, _)
DaysBefore(y, m) ==
    IF y = BaseDate.year /\ m = 1 THEN 0
    ELSE IF m = 1 THEN DaysBefore(y - 1, 12) + 31
    ELSE DaysBefore(y, m - 1) + DaysInMonth(y, m - 1)

ToOrdinal(d) == DaysBefore(d.year, d.month) + d.day - 1

\* today + dt.timedelta(days=k)
timedelta(d, k) == FromOrdinal(ToOrdinal(d) + k)

\* d.strftime("%m/%d/%Y")
strftime_date(d) == <<d.month, d.day, d.year>>

calculate_due_date_2days_off_by_one(priority, today) ==
    IF priority \in {"Today", "Today 2"} THEN strftime_date(today)
    ELSE IF priority = "Tomorrow" THEN strftime_date(timedelta(today, 1))
    ELSE IF priority = "2 days" THEN strftime_date(timedelta(today, 1))
    ELSE strftime_date(today)

\* calculate_due_date(priority), with the clock reading dt.datetime.now(eastern)
\* passed in as `today`
calculate_due_date(priority, today) ==
    IF priority \in {"Today", "Today 2"} THEN strftime_date(today)
    ELSE IF priority = "Tomorrow" THEN strftime_date(timedelta(today, 1))
    ELSE IF priority = "2 days" THEN strftime_date(timedelta(today, 2))
    ELSE strftime_date(today)


-----------------------------------------------------------------------------
(* Schema created by init_db, and the column list of insert_ticket *)

TicketsColumns ==
    <<"id", "date_entered", "time_entered", "communication", "entered_by",
      "assigned_to", "fba_customer", "instructions_order_id", "priority",
      "due_date", "status", "notes">>

DeletedColumns ==
    <<"id", "date_entered", "time_entered", "communication", "entered_by",
      "assigned_to", "fba_customer", "instructions_order_id", "priority",
      "due_date", "status", "notes">>

InsertColumns ==
    <<"date_entered", "time_entered", "communication", "entered_by",
      "assigned_to", "fba_customer", "instructions_order_id", "priority",
      "due_date", "status", "notes">>

Range(s) == {s[i] : i \in DOMAIN s}

IndexOf(s, x) == CHOOSE i \in DOMAIN s : s[i] = x

\* position of each column in the INSERT statement's column list, which is
\* the position of its ? in VALUES
InsertPosition == [c \in Range(InsertColumns) |-> IndexOf(InsertColumns, c)]

Columns(table) == IF table = "tickets" THEN TicketsColumns ELSE DeletedColumns

Other(table) == IF table = "tickets" THEN "deleted_tickets" ELSE "tickets"

Restrict(f, S) == [x \in S |-> f[x]]

MaxOf(S) == IF S = {} THEN 0 ELSE CHOOSE x \in S : \A y \in S : y <= x

\* The database as one value: both tables and the AUTOINCREMENT counter
Database(t, d, q) == [tickets |-> t, deleted_tickets |-> d, sqlite_sequence |-> q]

-----------------------------------------------------------------------------
(* SQL statements of the store *)

rowid_without_autoincrement(db) == MaxOf(DOMAIN db.tickets) + 1

\* id INTEGER PRIMARY KEY AUTOINCREMENT: one more than the largest id the
\* table has ever held
next_rowid(db) ==
    (IF db.sqlite_sequence >= MaxOf(DOMAIN db.tickets)
     THEN db.sqlite_sequence ELSE MaxOf(DOMAIN db.tickets)) + 1

\* for each target table, the source column that SELECT * puts into each of
\* its columns: the one at the same position
SelectStarColumn ==
    [dst \in {"tickets", "deleted_tickets"} |->
        [c \in Range(Columns(dst)) |-> Columns(Other(dst))[IndexOf(Columns(dst), c)]]]

select_star_drops_notes(row, dst) ==
    [c \in DOMAIN SelectStarColumn[dst] |->
        IF c = "notes" THEN "" ELSE row[SelectStarColumn[dst][c]]]

\* INSERT INTO dst SELECT * FROM src: the columns of the selected row are
\* assigned to the columns of dst by position
select_star(row, dst) ==
    [c \in DOMAIN SelectStarColumn[dst] |-> row[SelectStarColumn[dst][c]]]

\* INSERT INTO <dst> SELECT * FROM <src> WHERE id=?
insert_select(db, dst, id) ==
    LET src == Other(dst) IN
    IF id \notin DOMAIN db[src] THEN [db |-> db, error |-> "none", rowcount |-> 0]
    ELSE IF id \in DOMAIN db[dst]
    THEN [db |-> db, error |-> "IntegrityError", rowcount |-> 0]
    ELSE LET row == select_star(db[src][id], dst)
             key == row.id
             grown == [db EXCEPT ![dst] = (key :> row) @@ db[dst]]
         IN [db |-> IF dst = "tickets" /\ key > db.sqlite_sequence
                    THEN [grown EXCEPT !.sqlite_sequence = key] ELSE grown,
             error |-> "none", rowcount |-> 1]

delete_where_matches_nothing(db, table, id) == db

\* DELETE FROM <table> WHERE id=?
delete_where(db, table, id) ==
    [db EXCEPT ![table] = Restrict(db[table], DOMAIN db[table] \ {id})]

\* the for loop of delete_tickets / recover_tickets from its i-th id on:
\* two statements per id inside one transaction; an exception leaves the loop
RECURSIVE move_rows(_, _, _, _)
move_rows(db, dst, ids, i) ==
    IF i > Len(ids) THEN [db |-> db, error |-> "none", moved |-> 0]
    ELSE LET ins == insert_select(db, dst, ids[i]) IN
         IF ins.error # "none" THEN [db |-> db, error |-> ins.error, moved |-> 0]
         ELSE LET rest == move_rows(delete_where(ins.db, Other(dst), ids[i]),
                                    dst, ids, i + 1)
              IN [rest EXCEPT !.moved = @ + ins.rowcount]

\* the `with sqlite3.connect(DB_PATH) as con:` block around a transaction:
\* commit when the block ends normally, rollback when it raises
with_connection(db, outcome) ==
    IF outcome.error = "none" THEN outcome ELSE [outcome EXCEPT !.db = db, !.moved = 0]

-----------------------------------------------------------------------------
(* Store functions of src/customer.py.  Each returns the database after the *)
(* call and what the call raised ("none" when it returned).                *)

\* insert_ticket(row); row is tuple(row.values()), bound to InsertColumns
insert_ticket(db, row) ==
    LET id == next_rowid(db)
        new == [c \in DOMAIN InsertPosition \cup {"id"} |->
                   IF c = "id" THEN id ELSE row[InsertPosition[c]]]
    IN [db |-> [db EXCEPT !.tickets = (id :> new) @@ db.tickets,
                          !.sqlite_sequence = id],
        error |-> "none", lastrowid |-> id]

\* UPDATE tickets SET k=?, ... WHERE id=?
update_where(db, ticket_id, updates) ==
    IF ticket_id \in DOMAIN db.tickets
    THEN [db |-> [db EXCEPT !.tickets[ticket_id] =
                     [c \in DOMAIN @ |-> IF c \in DOMAIN updates THEN updates[c] ELSE @[c]]],
          error |-> "none", rowcount |-> 1]
    ELSE [db |-> db, error |-> "none", rowcount |-> 0]

\* update_ticket(ticket_id, updates) of src/customer.py
update_ticket(db, ticket_id, updates) ==
    IF DOMAIN updates = {} THEN [db |-> db, error |-> "none", rowcount |-> 0]
    ELSE update_where(db, ticket_id, updates)

\* update_ticket(ticket_id, updates) of src/app.py: no guard, so an empty
\* dict yields the statement "UPDATE tickets SET  WHERE id= ?", which SQLite
\* refuses to prepare
app_update_ticket(db, ticket_id, updates) ==
    IF DOMAIN updates = {}
    THEN [db |-> db, error |-> "OperationalError", rowcount |-> 0]
    ELSE update_where(db, ticket_id, updates)

\* delete_tickets(ids)
delete_tickets(db, ids) ==
    IF ids = <<>> THEN [db |-> db, error |-> "none", moved |-> 0]
    ELSE with_connection(db, move_rows(db, "deleted_tickets", ids, 1))

\* recover_tickets(ids)
recover_tickets(db, ids) ==
    IF ids = <<>> THEN [db |-> db, error |-> "none", moved |-> 0]
    ELSE with_connection(db, move_rows(db, "tickets", ids, 1))

\* load_tickets(table): SELECT * FROM <table> ORDER BY id DESC, as the
\* sequence of rows
RECURSIVE order_by_id_desc(_)
order_by_id_desc(rows) ==
    IF DOMAIN rows = {} THEN <<>>
    ELSE LET top == MaxOf(DOMAIN rows)
         IN <<rows[top]>> \o order_by_id_desc(Restrict(rows, DOMAIN rows \ {top}))

load_tickets(db, table) == order_by_id_desc(db[table])

-----------------------------------------------------------------------------
(* The clock.  `now` counts steps of 36 hours from 12/30/2023 09:30 AM, the *)
(* readings of dt.datetime.now(eastern): successive readings differ in     *)
(* date and in time of day.                                                *)

Epoch == [year |-> 2023, month |-> 12, day |-> 30]

Today(n) == timedelta(Epoch, (3 * n) \div 2)

\* now.strftime("%I:%M %p")
strftime_time(n) == IF n % 2 = 0 THEN <<9, 30, "AM">> ELSE <<9, 30, "PM">>

BlankDate == <<>>

-----------------------------------------------------------------------------
(* Enum columns and their declared members *)

EnumColumns == {"communication", "entered_by", "assigned_to", "priority", "status"}

EnumOf(c) ==
    CASE c = "communication" -> COMMUNICATION
      [] c = "entered_by" -> USERS
      [] c = "assigned_to" -> USERS
      [] c = "priority" -> PRIORITY
      [] c = "status" -> STATUS

\* a dict of column values carries a non-blank value outside its enum
CarriesNonMember(fields) ==
    \E c \in EnumColumns \cap DOMAIN fields : fields[c] # "" /\ fields[c] \notin EnumOf(c)

\* key order of the dict add_new builds
PayloadKeys ==
    <<"date_entered", "time_entered", "communication", "entered_by",
      "assigned_to", "fba_customer", "instructions_order_id", "priority",
      "due_date", "status", "notes">>

\* tuple(row.values()): the values of the dict in its key order
RowValues(fields) == [i \in DOMAIN PayloadKeys |-> fields[PayloadKeys[i]]]

Sessions == {"s1", "s2"}

-----------------------------------------------------------------------------
(* Spec: the store functions called directly, one call per step, with any  *)
(* ids (absent ids and ids repeated in one call included).                 *)

BlankDraft(n) ==
    [date_entered |-> strftime_date(Today(n)), time_entered |-> strftime_time(n),
     communication |-> "", entered_by |-> "", assigned_to |-> "",
     fba_customer |-> "", instructions_order_id |-> "", priority |-> "",
     due_date |-> BlankDate, status |-> "", notes |-> ""]

\* rows a caller of insert_ticket may pass
InsertInputs(n) ==
    { [BlankDraft(n) EXCEPT !.communication = "Informed Customer", !.entered_by = "Sam",
                            !.assigned_to = "Vinny", !.fba_customer = "acme",
                            !.instructions_order_id = "PO-1", !.priority = "Tomorrow",
                            !.due_date = calculate_due_date("Tomorrow", Today(n)),
                            !.status = "Open", !.notes = "call back"],
      [BlankDraft(n) EXCEPT !.status = "Bogus"] }

\* dicts a caller of update_ticket may pass; <<>> is the empty dict
UpdateInputs ==
    { <<>>,
      [status |-> "Started", notes |-> "done"] }

\* ids a caller may name: every id the store can have issued; one is unissued
\* for as long as fewer than MaxTickets tickets have been created
Ids == 1 .. MaxTickets

IdLists == UNION { [1 .. n -> Ids] : n \in 0 .. MaxIds }

\* history: what the last store call was given and what it raised
NoCall == [fn |-> "none", repeated |-> FALSE, empty |-> FALSE, nonmember |-> FALSE,
           error |-> "none"]

\* an id list names twice an id that the source table holds
Repeated(ids, rows) ==
    \E i, j \in DOMAIN ids : i # j /\ ids[i] = ids[j] /\ ids[i] \in DOMAIN rows


NoDue == [fn |-> "none", priority |-> "", today |-> Epoch, result |-> BlankDate,
          done |-> FALSE]

\* no filter has been set up
NoFilter == [fn |-> "none", T |-> <<>>, A |-> <<>>, B |-> <<>>, AB |-> <<>>, BA |-> <<>>,
             done |-> FALSE]

Idle == [s \in Sessions |-> "idle"]

StoreInit ==
    /\ tickets = <<>>
    /\ deleted_tickets = <<>>
    /\ sqlite_sequence = 0
    /\ now = 0
    /\ returned = <<>>
    /\ pre = <<>>
    /\ saved = <<>>

Init ==
    /\ StoreInit
    /\ call = NoCall
    /\ view = Idle
    /\ msg = Idle
    /\ conn = Idle
    /\ seen = Idle
    /\ due = NoDue
    /\ flt = NoFilter

Committed == Database(tickets, deleted_tickets, sqlite_sequence)

\* the call's effect on the committed database
Commit(db) ==
    /\ tickets' = db.tickets
    /\ deleted_tickets' = db.deleted_tickets
    /\ sqlite_sequence' = db.sqlite_sequence

InsertTicket(fields) ==
    /\ sqlite_sequence < MaxTickets
    /\ LET r == insert_ticket(Committed, RowValues(fields)) IN
       /\ Commit(r.db)
       /\ returned' = Append(returned, r.lastrowid)
       /\ call' = [NoCall EXCEPT !.fn = "insert_ticket",
                                 !.nonmember = CarriesNonMember(fields),
                                 !.error = r.error]
    /\ UNCHANGED <<now, pre, saved, view, msg, conn, seen, due, flt>>

UpdateTicket(id, updates) ==
    /\ LET r == update_ticket(Committed, id, updates) IN
       /\ Commit(r.db)
       /\ call' = [NoCall EXCEPT !.fn = "update_ticket",
                                 !.empty = (DOMAIN updates = {}),
                                 !.nonmember = CarriesNonMember(updates),
                                 !.error = r.error]
    /\ pre' = Restrict(pre, DOMAIN pre \ {id})
    /\ UNCHANGED <<now, returned, saved, view, msg, conn, seen, due, flt>>

AppUpdateTicket(id, updates) ==
    /\ LET r == app_update_ticket(Committed, id, updates) IN
       /\ Commit(r.db)
       /\ call' = [NoCall EXCEPT !.fn = "app.update_ticket",
                                 !.empty = (DOMAIN updates = {}),
                                 !.nonmember = CarriesNonMember(updates),
                                 !.error = r.error]
    /\ pre' = Restrict(pre, DOMAIN pre \ {id})
    /\ UNCHANGED <<now, returned, saved, view, msg, conn, seen, due, flt>>

\* history: the rows a delete_tickets call moved, as they were before it,
\* not yet named by a recover_tickets call
Remember(before, after) ==
    LET gone == DOMAIN before.tickets \ DOMAIN after.tickets IN
    [id \in DOMAIN pre \cup gone |->
        IF id \in gone THEN [row |-> before.tickets[id], recovered |-> FALSE] ELSE pre[id]]

DeleteTickets(ids) ==
    /\ LET r == delete_tickets(Committed, ids) IN
       /\ Commit(r.db)
       /\ pre' = Remember(Committed, r.db)
       /\ call' = [NoCall EXCEPT !.fn = "delete_tickets",
                                 !.repeated = Repeated(ids, tickets),
                                 !.error = r.error]
    /\ UNCHANGED <<now, returned, saved, view, msg, conn, seen, due, flt>>

RecoverTickets(ids) ==
    /\ LET r == recover_tickets(Committed, ids) IN
       /\ Commit(r.db)
       /\ call' = [NoCall EXCEPT !.fn = "recover_tickets",
                                 !.repeated = Repeated(ids, deleted_tickets),
                                 !.error = r.error]
    /\ pre' = [id \in DOMAIN pre |->
                  IF id \in Range(ids) THEN [pre[id] EXCEPT !.recovered = TRUE] ELSE pre[id]]
    /\ UNCHANGED <<now, returned, saved, view, msg, conn, seen, due, flt>>

Next ==
    \/ \E fields \in InsertInputs(now) : InsertTicket(fields)
    \/ \E id \in Ids, updates \in UpdateInputs : UpdateTicket(id, updates)
    \/ \E id \in Ids, updates \in UpdateInputs : AppUpdateTicket(id, updates)
    \/ \E ids \in IdLists : DeleteTickets(ids)
    \/ \E ids \in IdLists : RecoverTickets(ids)

Spec == Init /\ [][Next]_vars

-----------------------------------------------------------------------------
(* Properties of the store functions, checked under Spec *)

StoredRows ==
    {tickets[id] : id \in DOMAIN tickets} \cup {deleted_tickets[id] : id \in DOMAIN deleted_tickets}

\* C1: after any sequence of insert_ticket, update_ticket, delete_tickets and
\* recover_tickets calls, with any ids, no id is in both tables and every id
\* insert_ticket has returned is in one of them.
C1_Partition ==
    /\ DOMAIN tickets \cap DOMAIN deleted_tickets = {}
    /\ \A i \in DOMAIN returned :
          returned[i] \in DOMAIN tickets \cup DOMAIN deleted_tickets

\* a delete_tickets call named the same existing id twice, and both tables
\* hold tickets
C1_Witness ==
    /\ call.fn = "delete_tickets" /\ call.repeated
    /\ DOMAIN deleted_tickets # {}
    /\ DOMAIN tickets # {}

\* C3: a ticket that was soft-deleted and then named by recover_tickets, with
\* no update_ticket call on its id since the delete, is in tickets with every
\* column (id included) as it was before the delete, and is not in
\* deleted_tickets.
C3_RoundTrip ==
    \A id \in DOMAIN pre :
        pre[id].recovered =>
            /\ id \in DOMAIN tickets
            /\ tickets[id] = pre[id].row
            /\ id \notin DOMAIN deleted_tickets

\* recover_tickets has just brought back a ticket that carries a note
C3_Witness ==
    \E id \in DOMAIN pre :
        /\ call.fn = "recover_tickets" /\ pre[id].recovered
        /\ id \in DOMAIN tickets
        /\ tickets[id].notes # "" /\ tickets[id].status # ""

\* C6: update_ticket with an empty dict returns without error and changes no
\* stored row, in src/customer.py and in src/app.py alike.
C6_EmptyUpdateIsNoOp ==
    [][ (call'.fn \in {"update_ticket", "app.update_ticket"} /\ call'.empty) =>
            /\ call'.error = "none"
            /\ tickets' = tickets
            /\ deleted_tickets' = deleted_tickets ]_vars

\* C9: a create or update carrying a non-blank value outside the column's enum
\* is rejected with ValidationError, so every stored row's enum columns are
\* blank or members of their enum.
C9_EnumValidation ==
    /\ call.nonmember => call.error = "ValidationError"
    /\ \A r \in StoredRows : \A c \in EnumColumns : r[c] = "" \/ r[c] \in EnumOf(c)

\* C10: the ids insert_ticket returns are strictly increasing, whatever
\* delete_tickets and recover_tickets calls come in between, and
\* recover_tickets never hits an id that is already in tickets.
C10_FreshIds ==
    /\ \A i, j \in DOMAIN returned : i < j => returned[i] < returned[j]
    /\ call.fn = "recover_tickets" => call.error = "none"

\* insert_ticket has just returned an id while the ticket with the highest
\* earlier id sits in deleted_tickets
C10_Witness ==
    /\ call.fn = "insert_ticket"
    /\ Len(returned) >= 2
    /\ returned[Len(returned) - 1] \in DOMAIN deleted_tickets
    /\ returned[Len(returned)] \in DOMAIN tickets

-----------------------------------------------------------------------------
(* SpecDue: the due-date computation on its own, for every priority and    *)
(* every date of a range that crosses a year end and a leap day.           *)

\* d.isoformat()
isoformat(d) == <<d.year, d.month, d.day>>

\* add_or_edit of src/app.py, "Auto-set due_date based on priority": `widget`
\* is the value of the Due Date input, kept when no branch matches
app_due_date(pr, today, widget) ==
    isoformat(IF pr = "Today" THEN today
              ELSE IF pr = "Today 2" THEN today
              ELSE IF pr = "Tomorrow" THEN timedelta(today, 1)
              ELSE IF pr = "2 days" THEN timedelta(today, 2)
              ELSE widget)

\* what a caller may pass as priority: the enum, blank, and a value outside it
DuePriorities == PRIORITY \cup {"", "Next week"}

InitDue ==
    /\ StoreInit
    /\ call = NoCall
    /\ view = Idle
    /\ msg = Idle
    /\ conn = Idle
    /\ seen = Idle
    /\ flt = NoFilter
    /\ due \in {[fn |-> f, priority |-> p, today |-> FromOrdinal(n),
                 result |-> BlankDate, done |-> FALSE] :
                    f \in {"calculate_due_date", "add_or_edit"},
                    p \in DuePriorities, n \in 0 .. MaxDueDays}

CalculateDueDate ==
    /\ ~due.done
    /\ due.fn = "calculate_due_date"
    /\ due' = [due EXCEPT !.result = calculate_due_date(due.priority, due.today),
                          !.done = TRUE]
    /\ UNCHANGED <<tickets, deleted_tickets, sqlite_sequence, now, returned, pre,
                   saved, call, view, msg, conn, seen, flt>>

\* the priority selectbox of src/app.py offers PRIORITY only
AppDueDate ==
    /\ ~due.done
    /\ due.fn = "add_or_edit"
    /\ due.priority \in PRIORITY
    /\ due' = [due EXCEPT !.result = app_due_date(due.priority, due.today, Epoch),
                          !.done = TRUE]
    /\ UNCHANGED <<tickets, deleted_tickets, sqlite_sequence, now, returned, pre,
                   saved, call, view, msg, conn, seen, flt>>

NextDue == CalculateDueDate \/ AppDueDate

SpecDue == InitDue /\ [][NextDue]_vars

\* the calendar day after d
NextDay(d) ==
    IF d.day < DaysInMonth(d.year, d.month) THEN [d EXCEPT !.day = @ + 1]
    ELSE IF d.month < 12 THEN [year |-> d.year, month |-> d.month + 1, day |-> 1]
    ELSE [year |-> d.year + 1, month |-> 1, day |-> 1]

\* the due date the policy table gives priority p on date d
PolicyDue(p, d) ==
    CASE p \in {"Today", "Today 2"} -> d
      [] p = "Tomorrow" -> NextDay(d)
      [] p = "2 days" -> NextDay(NextDay(d))
      [] OTHER -> d

\* C7: for every priority p and current date d the due-date computation
\* returns d for Today and Today 2, the day after d for Tomorrow, two days
\* after d for 2 days, and d for a blank or unrecognized p.
C7_DueDatePolicy ==
    due.done =>
        LET e == PolicyDue(due.priority, due.today) IN
        IF due.fn = "calculate_due_date"
        THEN due.result = <<e.month, e.day, e.year>>
        ELSE due.result = <<e.year, e.month, e.day>>

\* "2 days" asked on the last day of a leap February
C7_Witness ==
    /\ due.done /\ due.fn = "calculate_due_date" /\ due.priority = "2 days"
    /\ due.today = [year |-> 2024, month |-> 2, day |-> 28]
    /\ due.result = <<3, 1, 2024>>

-----------------------------------------------------------------------------
(* SpecApp: the page handlers of src/customer.py, run by several browser   *)
(* sessions.  A script run first loads a table into a DataFrame and then,  *)
(* as a later step, runs the handler of the button that was pressed, so    *)
(* another session's committed call can fall between the two.              *)

\* what the user left in the widgets of the add / edit form
FormInputs ==
    { [ent |-> "", own |-> "", pr |-> "", cust |-> "", stt |-> "", instr |-> "",
       notes |-> "", comm |-> ""],
      [ent |-> "Sam", own |-> "Vinny", pr |-> "Tomorrow", cust |-> "acme",
       stt |-> "Open", instr |-> "PO-1", notes |-> "call back",
       comm |-> "Informed Customer"] }

\* the payload dict of add_new
add_new_payload(form, n) ==
    [date_entered |-> strftime_date(Today(n)),
     time_entered |-> strftime_time(n),
     communication |-> form.comm,
     entered_by |-> form.ent,
     assigned_to |-> form.own,
     fba_customer |-> form.cust,
     instructions_order_id |-> form.instr,
     priority |-> form.pr,
     due_date |-> IF form.pr # "" THEN calculate_due_date(form.pr, Today(n)) ELSE BlankDate,
     status |-> form.stt,
     notes |-> form.notes]

edit_existing_updates_keeps_due_date(form, n) ==
    [communication |-> form.comm,
     entered_by |-> form.ent,
     assigned_to |-> form.own,
     fba_customer |-> form.cust,
     instructions_order_id |-> form.instr,
     priority |-> form.pr,
     status |-> form.stt,
     notes |-> form.notes]

edit_existing_updates_restamps(form, n) ==
    [date_entered |-> strftime_date(Today(n)),
     time_entered |-> strftime_time(n),
     communication |-> form.comm,
     entered_by |-> form.ent,
     assigned_to |-> form.own,
     fba_customer |-> form.cust,
     instructions_order_id |-> form.instr,
     priority |-> form.pr,
     due_date |-> IF form.pr # "" THEN calculate_due_date(form.pr, Today(n)) ELSE BlankDate,
     status |-> form.stt,
     notes |-> form.notes]

\* the updates dict of edit_existing
edit_existing_updates(form, n) ==
    [communication |-> form.comm,
     entered_by |-> form.ent,
     assigned_to |-> form.own,
     fba_customer |-> form.cust,
     instructions_order_id |-> form.instr,
     priority |-> form.pr,
     due_date |-> IF form.pr # "" THEN calculate_due_date(form.pr, Today(n)) ELSE BlankDate,
     status |-> form.stt,
     notes |-> form.notes]

\* ids = [label_to_id[l] for l in selected labels]; the labels are listed in
\* the DataFrame's order, id descending
RECURSIVE selected_ids(_)
selected_ids(sel) ==
    IF sel = {} THEN <<>>
    ELSE <<MaxOf(sel)>> \o selected_ids(sel \ {MaxOf(sel)})

NoView == [table |-> "none", ids |-> {}]

NoMsg == [kind |-> "none", n |-> 0, affected |-> 0]

InitApp ==
    /\ StoreInit
    /\ call = NoCall
    /\ view = [s \in Sessions |-> NoView]
    /\ msg = NoMsg
    /\ conn = Idle
    /\ seen = Idle
    /\ due = NoDue
    /\ flt = NoFilter

\* dashboard() / edit_existing() / deleted_records(): df = load_tickets(table)
Load(s, table) ==
    /\ view' = [view EXCEPT ![s] =
                   [table |-> table,
                    ids |-> {r.id : r \in Range(load_tickets(Committed, table))}]]
    /\ UNCHANGED <<tickets, deleted_tickets, sqlite_sequence, now, returned, pre,
                   saved, call, msg, conn, seen, due, flt>>

\* add_new(), "Add" submitted
AddNew(s, form) ==
    /\ sqlite_sequence < MaxTickets
    /\ LET r == insert_ticket(Committed, RowValues(add_new_payload(form, now))) IN
       /\ Commit(r.db)
       /\ returned' = Append(returned, r.lastrowid)
       /\ saved' = (r.lastrowid :>
                        [priority |-> form.pr, today |-> Today(now),
                         date_entered |-> add_new_payload(form, now).date_entered,
                         time_entered |-> add_new_payload(form, now).time_entered]) @@ saved
    /\ msg' = [kind |-> "added", n |-> 1, affected |-> 1]
    /\ view' = [view EXCEPT ![s] = NoView]
    /\ UNCHANGED <<now, pre, call, conn, seen, due, flt>>

\* edit_existing(), "Save" submitted for the id picked in the selectbox
EditExisting(s, sel_id, form) ==
    /\ view[s].table = "tickets"
    /\ sel_id \in view[s].ids
    /\ LET r == update_ticket(Committed, sel_id, edit_existing_updates(form, now)) IN
       /\ Commit(r.db)
       /\ saved' = IF r.rowcount = 1
                   THEN [saved EXCEPT ![sel_id].priority = form.pr,
                                      ![sel_id].today = Today(now)]
                   ELSE saved
       /\ msg' = [kind |-> "updated", n |-> 1, affected |-> r.rowcount]
    /\ view' = [view EXCEPT ![s] = NoView]
    /\ UNCHANGED <<now, returned, pre, call, conn, seen, due, flt>>

\* render_table(df, deleted=False), "Delete selected" pressed
DeleteSelected(s, sel) ==
    /\ view[s].table = "tickets"
    /\ sel \subseteq view[s].ids
    /\ Cardinality(sel) <= MaxIds
    /\ LET ids == selected_ids(sel)
           r == delete_tickets(Committed, ids)
       IN IF ids # <<>>
          THEN /\ Commit(r.db)
               /\ msg' = [kind |-> "deleted", n |-> Len(ids), affected |-> r.moved]
          ELSE /\ UNCHANGED <<tickets, deleted_tickets, sqlite_sequence>>
               /\ msg' = [kind |-> "nothing selected", n |-> 0, affected |-> 0]
    /\ view' = [view EXCEPT ![s] = NoView]
    /\ UNCHANGED <<now, returned, pre, saved, call, conn, seen, due, flt>>

\* render_table(df, deleted=True), "Recover selected" pressed
RecoverSelected(s, sel) ==
    /\ view[s].table = "deleted_tickets"
    /\ sel \subseteq view[s].ids
    /\ Cardinality(sel) <= MaxIds
    /\ LET ids == selected_ids(sel)
           r == recover_tickets(Committed, ids)
       IN IF ids # <<>>
          THEN /\ Commit(r.db)
               /\ msg' = [kind |-> "recovered", n |-> Len(ids), affected |-> r.moved]
          ELSE /\ UNCHANGED <<tickets, deleted_tickets, sqlite_sequence>>
               /\ msg' = [kind |-> "nothing selected", n |-> 0, affected |-> 0]
    /\ view' = [view EXCEPT ![s] = NoView]
    /\ UNCHANGED <<now, returned, pre, saved, call, conn, seen, due, flt>>

\* time passes
Tick ==
    /\ now < MaxNow
    /\ now' = now + 1
    /\ UNCHANGED <<tickets, deleted_tickets, sqlite_sequence, returned, pre, saved,
                   call, view, msg, conn, seen, due, flt>>

NextApp ==
    \/ \E s \in Sessions, table \in {"tickets", "deleted_tickets"} : Load(s, table)
    \/ \E s \in Sessions, form \in FormInputs : AddNew(s, form)
    \/ \E s \in Sessions, sel_id \in Ids, form \in FormInputs : EditExisting(s, sel_id, form)
    \/ \E s \in Sessions, sel \in SUBSET Ids : DeleteSelected(s, sel)
    \/ \E s \in Sessions, sel \in SUBSET Ids : RecoverSelected(s, sel)
    \/ Tick

SpecApp == InitApp /\ [][NextApp]_vars

-----------------------------------------------------------------------------
(* Properties of the page handlers, checked under SpecApp *)

\* the stored row of a ticket, whichever table holds it
Row(id) == IF id \in DOMAIN tickets THEN tickets[id] ELSE deleted_tickets[id]

\* C4: a bulk delete (or recover) skips the selected ids that are not in the
\* source table, moves the others, and reports as its count the number of
\* tickets it moved.
C4_ReportedCount ==
    msg.kind \in {"deleted", "recovered"} => msg.n = msg.affected

\* C5: an update of an id that is not in tickets is not reported as a success.
C5_UpdateNotFound ==
    msg.kind = "updated" => msg.affected = 1

C13_CreationFieldsImmutable ==
    \A id \in DOMAIN saved :
        /\ (id \in DOMAIN tickets) # (id \in DOMAIN deleted_tickets)
        /\ Row(id).id = id
        /\ Row(id).date_entered = saved[id].date_entered
        /\ Row(id).time_entered = saved[id].time_entered

\* the only ticket was edited at a later clock reading than its creation and
\* has just come back from deleted_tickets
C13_Witness ==
    /\ msg.kind = "recovered" /\ msg.affected = 1
    /\ sqlite_sequence = 1 /\ DOMAIN tickets = {1} /\ DOMAIN deleted_tickets = {}
    /\ strftime_date(saved[1].today) # saved[1].date_entered
    /\ tickets[1].date_entered = saved[1].date_entered

\* C14: an edit that saves a ticket with the priority it already had leaves
\* its due_date as it was, whatever the date of the edit.
C14_SamePriorityKeepsDueDate ==
    [][ \A id \in DOMAIN tickets \cap DOMAIN tickets' :
            tickets'[id].priority = tickets[id].priority =>
                tickets'[id].due_date = tickets[id].due_date ]_vars

-----------------------------------------------------------------------------
(* SpecTxn: the store functions of several sessions run statement by       *)
(* statement.  Python's sqlite3 opens a transaction before the first       *)
(* INSERT / UPDATE / DELETE of a connection; the statement takes SQLite's  *)
(* write lock, which one connection holds at a time, and what the          *)
(* transaction wrote reaches the database file at con.commit().            *)

NoConn == [pc |-> "idle", fn |-> "none", ids |-> <<>>, i |-> 0, db |-> <<>>,
           begin |-> <<>>, error |-> "none", undone |-> FALSE]

NoSeen == [table |-> "none", hidden |-> FALSE, torn |-> FALSE]

\* some connection holds the write lock
Locked == \E s \in Sessions : conn[s].pc # "idle"

\* a created id is in both tables or in neither
Split(db) ==
    \E i \in DOMAIN returned :
        (returned[i] \in DOMAIN db.tickets) = (returned[i] \in DOMAIN db.deleted_tickets)

publish_autocommit(committed, working) == working

\* the database file after cur.execute() inside an open transaction: the
\* statement's writes stay in the transaction
publish(committed, working) == committed

\* target table of a move
Target(fn) == IF fn = "delete_tickets" THEN "deleted_tickets" ELSE "tickets"

\* the tickets the sessions work on were created by insert_ticket
RECURSIVE Populated(_, _)
Populated(db, k) ==
    IF k = 0 THEN db
    ELSE insert_ticket(Populated(db, k - 1),
                       RowValues([BlankDraft(0) EXCEPT !.status = "Open",
                                                       !.notes = "call back"])).db

InitTxn ==
    /\ LET db == Populated(Database(<<>>, <<>>, 0), MaxTickets) IN
       /\ tickets = db.tickets
       /\ deleted_tickets = db.deleted_tickets
       /\ sqlite_sequence = db.sqlite_sequence
    /\ returned = [i \in 1 .. MaxTickets |-> i]
    /\ now = 0
    /\ pre = <<>>
    /\ saved = <<>>
    /\ call = NoCall
    /\ view = Idle
    /\ msg = Idle
    /\ conn = [s \in Sessions |-> NoConn]
    /\ seen = NoSeen
    /\ due = NoDue
    /\ flt = NoFilter

TxnFrame == <<now, returned, pre, saved, call, view, msg, due, flt>>

\* the connection after a call that raised; history: whether the call had
\* already moved an earlier id of its list when it raised
Raised(c, error) ==
    [NoConn EXCEPT
        !.error = error,
        !.undone = /\ c.pc # "idle"
                   /\ c.fn # "update_ticket"
                   /\ \E k \in 1 .. (c.i - 1) :
                         c.ids[k] \in DOMAIN c.begin[Other(Target(c.fn))]]

rollback_keeps_writes(s, error) ==
    /\ conn' = [conn EXCEPT ![s] = Raised(conn[s], error)]
    /\ IF conn[s].pc = "idle"
       THEN UNCHANGED <<tickets, deleted_tickets, sqlite_sequence>>
       ELSE Commit(conn[s].db)

\* what a raised exception leaves: the with block rolls the transaction back
Rollback(s, error) ==
    /\ conn' = [conn EXCEPT ![s] = Raised(conn[s], error)]
    /\ UNCHANGED <<tickets, deleted_tickets, sqlite_sequence>>

\* cur.execute("INSERT INTO <target> SELECT * FROM <source> WHERE id=?") for
\* the i-th id, on the transaction's own state
Insert(s, fn, ids, i, working) ==
    LET r == insert_select(working, Target(fn), ids[i]) IN
    IF r.error # "none" THEN Rollback(s, r.error)
    ELSE /\ conn' = [conn EXCEPT ![s] =
                         [pc |-> "delete", fn |-> fn, ids |-> ids, i |-> i, db |-> r.db,
                          begin |-> IF i = 1 THEN Committed ELSE conn[s].begin,
                          error |-> "none", undone |-> FALSE]]
         /\ Commit(publish(Committed, r.db))

\* delete_tickets(ids) / recover_tickets(ids) up to and including its first
\* statement, which opens the transaction and takes the write lock
BeginMove(s, fn, ids) ==
    /\ conn[s].pc = "idle"
    /\ ~Locked
    /\ ids # <<>>
    /\ Insert(s, fn, ids, 1, Committed)
    /\ UNCHANGED <<seen, TxnFrame>>

\* cur.execute("DELETE FROM <source> WHERE id=?") for the i-th id
ExecDelete(s) ==
    /\ conn[s].pc = "delete"
    /\ LET c == conn[s]
           working == delete_where(c.db, Other(Target(c.fn)), c.ids[c.i])
       IN /\ conn' = [conn EXCEPT ![s] =
                         [c EXCEPT !.pc = IF c.i < Len(c.ids) THEN "insert" ELSE "commit",
                                   !.i = c.i + 1, !.db = working]]
          /\ Commit(publish(Committed, working))
    /\ UNCHANGED <<seen, TxnFrame>>

\* the INSERT ... SELECT of the next id of the loop
ExecInsert(s) ==
    /\ conn[s].pc = "insert"
    /\ Insert(s, conn[s].fn, conn[s].ids, conn[s].i, conn[s].db)
    /\ UNCHANGED <<seen, TxnFrame>>

\* update_ticket(ticket_id, updates) up to and including its UPDATE statement
BeginUpdate(s, id, updates) ==
    /\ conn[s].pc = "idle"
    /\ ~Locked
    /\ DOMAIN updates # {}
    /\ LET r == update_where(Committed, id, updates) IN
       /\ conn' = [conn EXCEPT ![s] = [pc |-> "commit", fn |-> "update_ticket",
                                        ids |-> <<id>>, i |-> 1, db |-> r.db,
                                        begin |-> Committed, error |-> "none",
                                        undone |-> FALSE]]
       /\ Commit(publish(Committed, r.db))
    /\ UNCHANGED <<seen, TxnFrame>>

\* con.commit()
CommitTxn(s) ==
    /\ conn[s].pc = "commit"
    /\ Commit(conn[s].db)
    /\ conn' = [conn EXCEPT ![s] = NoConn]
    /\ UNCHANGED <<seen, TxnFrame>>

\* the first statement of a call finds the write lock taken and, when the
\* connection's timeout runs out, raises "database is locked"
Busy(s) ==
    /\ conn[s].pc = "idle"
    /\ Locked
    /\ Rollback(s, "OperationalError")
    /\ UNCHANGED <<seen, TxnFrame>>

\* a statement after the first, or con.commit(), raises for a failure of the
\* storage (disk I/O error, disk full): sqlite3.OperationalError
StorageFailure(s) ==
    /\ conn[s].pc \in {"delete", "insert", "commit"}
    /\ Rollback(s, "OperationalError")
    /\ UNCHANGED <<seen, TxnFrame>>

\* load_tickets(table) on a connection of its own
LoadTickets(s, table) ==
    /\ conn[s].pc = "idle"
    /\ seen' = [table |-> table,
                hidden |-> \E t \in Sessions : conn[t].pc # "idle" /\ Split(conn[t].db),
                torn |-> Split(Committed)]
    /\ UNCHANGED <<tickets, deleted_tickets, sqlite_sequence, conn, TxnFrame>>

NextTxn ==
    \/ \E s \in Sessions, fn \in {"delete_tickets", "recover_tickets"}, ids \in IdLists :
          BeginMove(s, fn, ids)
    \/ \E s \in Sessions : ExecDelete(s)
    \/ \E s \in Sessions : ExecInsert(s)
    \/ \E s \in Sessions, id \in Ids : BeginUpdate(s, id, [status |-> "Started", notes |-> "done"])
    \/ \E s \in Sessions : CommitTxn(s)
    \/ \E s \in Sessions : Busy(s)
    \/ \E s \in Sessions : StorageFailure(s)
    \/ \E s \in Sessions, table \in {"tickets", "deleted_tickets"} : LoadTickets(s, table)

SpecTxn == InitTxn /\ [][NextTxn]_vars

\* C2: with several sessions deleting, recovering, updating and listing at
\* once, every committed state has each created id in exactly one of the two
\* tables, and no load_tickets call has observed an id in both or in neither.
C2_NoIntermediateState ==
    /\ ~Split(Committed)
    /\ ~seen.torn

\* a load_tickets call ran while another session's move was between its
\* INSERT and its DELETE, and did not see it
C2_Witness ==
    /\ seen.hidden
    /\ ~seen.torn
    /\ seen.table = "deleted_tickets"
    /\ \E s \in Sessions : conn[s].pc = "delete" /\ conn[s].fn = "delete_tickets"


\* C15: a bulk delete_tickets / recover_tickets call changes the two tables
\* only at its one commit at the end, and when it raises on a later id of its
\* list both tables are as they were before the call, the moves of the
\* earlier ids undone.
C15_BulkMoveAllOrNothing ==
    [][ \A s \in Sessions :
          conn[s].pc # "idle" /\ conn[s].fn # "update_ticket" =>
             /\ (tickets' # tickets \/ deleted_tickets' # deleted_tickets) =>
                    conn[s].pc = "commit" /\ conn'[s] = NoConn
             /\ conn'[s].error # "none" =>
                    /\ tickets' = conn[s].begin.tickets
                    /\ deleted_tickets' = conn[s].begin.deleted_tickets ]_vars

\* a bulk delete raised after it had moved an earlier id of its list, and
\* every ticket is in tickets as before the call
C15_Witness ==
    \E s \in Sessions :
        /\ conn[s].pc = "idle" /\ conn[s].error = "OperationalError"
        /\ conn[s].undone
        /\ {1, 2} \subseteq DOMAIN tickets
        /\ DOMAIN deleted_tickets = {}

-----------------------------------------------------------------------------
(* SpecFilter: the filters of the ticket table, as functions of the        *)
(* DataFrame and the filter widgets.  Text is searched character by        *)
(* character, so the string form of a value is a sequence of one-character *)
(* strings.                                                                *)

Digits == <<"0", "1", "2", "3", "4", "5", "6", "7", "8", "9">>

UpperCase ==
    <<"A", "B", "C", "D", "E", "F", "G", "H", "I", "J", "K", "L", "M",
      "N", "O", "P", "Q", "R", "S", "T", "U", "V", "W", "X", "Y", "Z">>

LowerCase ==
    <<"a", "b", "c", "d", "e", "f", "g", "h", "i", "j", "k", "l", "m",
      "n", "o", "p", "q", "r", "s", "t", "u", "v", "w", "x", "y", "z">>

\* the characters of the text values the sample tickets hold
Spelling ==
    { <<"", <<>> >>,
      <<"AM", <<"A", "M">> >>,
      <<"PM", <<"P", "M">> >>,
      <<"Sam", <<"S", "a", "m">>>>,
      <<"Vinny", <<"V", "i", "n", "n", "y">>>>,
      <<"Tomorrow", <<"T", "o", "m", "o", "r", "r", "o", "w">>>>,
      <<"Today", <<"T", "o", "d", "a", "y">>>>,
      <<"acme", <<"a", "c", "m", "e">>>>,
      <<"Bolt", <<"B", "o", "l", "t">>>>,
      <<"Open", <<"O", "p", "e", "n">>>>,
      <<"Completed", <<"C", "o", "m", "p", "l", "e", "t", "e", "d">>>>,
      <<"PO-1", <<"P", "O", "-", "1">>>>,
      <<"call back", <<"c", "a", "l", "l", " ", "b", "a", "c", "k">>>>,
      <<"sam", <<"s", "a", "m">>>> }

Chars(text) == (CHOOSE p \in Spelling : p[1] = text)[2]

\* str(n) of a non-negative integer
RECURSIVE str_int(_)
str_int(n) ==
    IF n < 10 THEN <<Digits[n + 1]>> ELSE str_int(n \div 10) \o <<Digits[(n % 10) + 1]>>

\* the %m, %d, %I and %M fields of strftime: two digits
TwoDigits(n) == <<Digits[(n \div 10) + 1], Digits[(n % 10) + 1]>>

\* str(val) of the value a DataFrame row holds in column c
str(c, val) ==
    CASE c = "id" -> str_int(val)
      [] c \in {"date_entered", "due_date"} ->
            IF val = BlankDate THEN <<>>
            ELSE TwoDigits(val[1]) \o <<"/">> \o TwoDigits(val[2]) \o <<"/">> \o str_int(val[3])
      [] c = "time_entered" ->
            TwoDigits(val[1]) \o <<":">> \o TwoDigits(val[2]) \o <<" ">> \o Chars(val[3])
      [] OTHER -> Chars(val)

\* str.lower(), and SQL LOWER(), on ASCII text
lower(text) ==
    [i \in DOMAIN text |->
        IF \E k \in DOMAIN UpperCase : UpperCase[k] = text[i]
        THEN LowerCase[CHOOSE k \in DOMAIN UpperCase : UpperCase[k] = text[i]]
        ELSE text[i]]

\* q in text
contains(q, text) ==
    \E i \in 0 .. (Len(text) - Len(q)) : SubSeq(text, i + 1, i + Len(q)) = q

RECURSIVE lstrip(_)
lstrip(text) ==
    IF text # <<>> /\ Head(text) = " " THEN lstrip(Tail(text)) ELSE text

RECURSIVE rstrip(_)
rstrip(text) ==
    IF text # <<>> /\ text[Len(text)] = " "
    THEN rstrip(SubSeq(text, 1, Len(text) - 1)) ELSE text

\* str.strip()
strip(text) == rstrip(lstrip(text))

\* text LIKE pattern of SQLite: % matches any run of characters, _ any one
\* character, and ASCII letters match without regard to case
RECURSIVE sql_like(_, _)
sql_like(text, pattern) ==
    IF pattern = <<>> THEN text = <<>>
    ELSE IF Head(pattern) = "%"
         THEN sql_like(text, Tail(pattern)) \/ (text # <<>> /\ sql_like(Tail(text), pattern))
         ELSE /\ text # <<>>
              /\ Head(pattern) = "_" \/ lower(<<Head(pattern)>>) = lower(<<Head(text)>>)
              /\ sql_like(Tail(text), Tail(pattern))

\* filtered[filtered[column] == value]
rows_where(df, column, value) ==
    LET keep(row) == row[column] = value IN SelectSeq(df, keep)

\* any(q in str(val).lower() for val in row.values)
any_field_contains(row, q) ==
    \E c \in DOMAIN row : contains(q, lower(str(c, row[c])))

render_table_filtered_query_resets(df, w) ==
    LET by_assignee == IF w.assignee # "All"
                       THEN rows_where(df, "assigned_to", w.assignee) ELSE df
        by_status == IF w.status_val # "All"
                     THEN rows_where(by_assignee, "status", w.status_val) ELSE by_assignee
        by_priority == IF w.priority_val # "All"
                       THEN rows_where(by_status, "priority", w.priority_val) ELSE by_status
        query == strip(w.query)
        mask(row) == any_field_contains(row, lower(query))
    IN IF query # <<>> THEN SelectSeq(df, mask) ELSE by_priority

\* render_table of src/customer.py, "Filters": w holds the values of the
\* three selectboxes and the text typed into the search box
render_table_filtered(df, w) ==
    LET by_assignee == IF w.assignee # "All"
                       THEN rows_where(df, "assigned_to", w.assignee) ELSE df
        by_status == IF w.status_val # "All"
                     THEN rows_where(by_assignee, "status", w.status_val) ELSE by_assignee
        by_priority == IF w.priority_val # "All"
                       THEN rows_where(by_status, "priority", w.priority_val) ELSE by_status
        query == strip(w.query)
        mask(row) == any_field_contains(row, lower(query))
    IN IF query # <<>> THEN SelectSeq(by_priority, mask) ELSE by_priority

\* the WHERE clause dashboard of src/app.py builds, with the Scope radio
\* left at "All"
dashboard_where(row, w) ==
    /\ w.f_priority # "(Any)" => row.priority = w.f_priority
    /\ w.f_status # "(Any)" => row.status = w.f_status
    /\ w.search # <<>> =>
          LET like == <<"%">> \o lower(w.search) \o <<"%">> IN
          \/ sql_like(lower(str("fba_customer", row.fba_customer)), like)
          \/ sql_like(lower(str("instructions_order_id", row.instructions_order_id)), like)
          \/ sql_like(lower(str("notes", row.notes)), like)

\* load_tickets(clause, params) of src/app.py: SELECT * FROM tickets WHERE
\* ... ORDER BY id DESC, over the table whose rows, by id descending, are df
dashboard_loaded(df, w) ==
    LET where(row) == dashboard_where(row, w) IN SelectSeq(df, where)

\* what the widgets of the two forms of the sample tickets held
FilterForm(i) ==
    CASE i % 3 = 1 -> [ent |-> "Sam", own |-> "Sam", pr |-> "Tomorrow", cust |-> "acme",
                       stt |-> "Open", instr |-> "PO-1", notes |-> "call back", comm |-> ""]
      [] i % 3 = 2 -> [ent |-> "Vinny", own |-> "Vinny", pr |-> "Today", cust |-> "Bolt",
                       stt |-> "Completed", instr |-> "", notes |-> "", comm |-> ""]
      [] OTHER -> [ent |-> "", own |-> "Sam", pr |-> "Tomorrow", cust |-> "",
                   stt |-> "Completed", instr |-> "", notes |-> "sam", comm |-> ""]

\* the tickets table after add_new has saved the sample tickets
FilterTable ==
    LET RECURSIVE saved_after(_)
        saved_after(k) ==
            IF k = 0 THEN Database(<<>>, <<>>, 0)
            ELSE insert_ticket(saved_after(k - 1),
                               RowValues(add_new_payload(FilterForm(k), 0))).db
    IN saved_after(MaxTickets + 1).tickets

\* the DataFrames load_tickets can return once some of them are deleted
FilterFrames ==
    { order_by_id_desc(Restrict(FilterTable, S)) : S \in SUBSET DOMAIN FilterTable }

\* texts typed into a search box
SearchTexts ==
    { <<>>, <<"v", "i", "n">>, <<"B", "o", "l", "t">>, <<" ", "p", "o">>, <<"a", "m">> }

\* widget values of the filter expander of src/customer.py
RenderTableWidgets ==
    [assignee : {"All", "Sam"}, status_val : {"All", "Completed"},
     priority_val : {"All", "Tomorrow"}, query : SearchTexts]

\* widget values of the dashboard of src/app.py
DashboardWidgets ==
    [scope : {"All"}, f_priority : {"(Any)", "Tomorrow"},
     f_status : {"(Any)", "Completed"}, search : SearchTexts]

InitFilter ==
    /\ StoreInit
    /\ call = NoCall
    /\ view = Idle
    /\ msg = Idle
    /\ conn = Idle
    /\ seen = Idle
    /\ due = NoDue
    /\ flt \in {[NoFilter EXCEPT !.fn = "render_table", !.T = df, !.A = a, !.B = b] :
                    df \in FilterFrames, a \in RenderTableWidgets, b \in RenderTableWidgets}
           \cup {[NoFilter EXCEPT !.fn = "dashboard", !.T = df, !.A = a, !.B = a] :
                    df \in FilterFrames, a \in DashboardWidgets}

FilterFrame ==
    <<tickets, deleted_tickets, sqlite_sequence, now, returned, pre, saved, call,
      view, msg, conn, seen, due>>

\* the frame is filtered by A and the result by B, and the other way round
RenderTable ==
    /\ ~flt.done
    /\ flt.fn = "render_table"
    /\ flt' = [flt EXCEPT
                 !.AB = render_table_filtered(render_table_filtered(flt.T, flt.A), flt.B),
                 !.BA = render_table_filtered(render_table_filtered(flt.T, flt.B), flt.A),
                 !.done = TRUE]
    /\ UNCHANGED FilterFrame

\* one run of the dashboard with the widgets at A
Dashboard ==
    /\ ~flt.done
    /\ flt.fn = "dashboard"
    /\ flt' = [flt EXCEPT !.AB = dashboard_loaded(flt.T, flt.A),
                          !.BA = dashboard_loaded(flt.T, flt.A),
                          !.done = TRUE]
    /\ UNCHANGED FilterFrame

NextFilter == RenderTable \/ Dashboard

SpecFilter == InitFilter /\ [][NextFilter]_vars

-----------------------------------------------------------------------------
(* Properties of the filters, checked under SpecFilter *)

\* the query of a filter criteria: the search text without surrounding blanks
QueryOf(w) == strip(w.query)

\* the lower-cased query is a substring of the lower-cased string form of
\* some field of the ticket
QueryMatches(row, q) ==
    \E c \in Range(TicketsColumns) :
        \E i \in 1 .. Len(str(c, row[c])) :
            /\ i + Len(q) - 1 <= Len(str(c, row[c]))
            /\ \A k \in 1 .. Len(q) : lower(str(c, row[c]))[i + k - 1] = lower(q)[k]

\* the ticket satisfies every constraint of the criteria
Satisfies(row, w) ==
    /\ w.assignee # "All" => row.assigned_to = w.assignee
    /\ w.status_val # "All" => row.status = w.status_val
    /\ w.priority_val # "All" => row.priority = w.priority_val
    /\ QueryOf(w) # <<>> => QueryMatches(row, QueryOf(w))

\* the tickets of T, in T's order, that satisfy both criteria
SatisfyingBoth(T, A, B) ==
    LET both(row) == Satisfies(row, A) /\ Satisfies(row, B) IN SelectSeq(T, both)

\* C11: filtering by A and then by B gives the same sequence as filtering by
\* B and then by A, namely the tickets of T, in T's order, that satisfy all
\* constraints of A and of B.
C11_FilterCommutes ==
    (flt.done /\ flt.fn = "render_table") =>
        /\ flt.AB = flt.BA
        /\ flt.AB = SatisfyingBoth(flt.T, flt.A, flt.B)

\* an assignee filter and a status-and-search filter that each drop a
\* different ticket were applied in both orders and one ticket is left
C11_Witness ==
    /\ flt.done /\ flt.fn = "render_table"
    /\ flt.A.assignee = "Sam" /\ flt.A.status_val = "All" /\ flt.A.query = <<>>
    /\ flt.B.assignee = "All" /\ flt.B.status_val = "Completed"
    /\ flt.B.query = <<"a", "m">>
    /\ Len(flt.T) >= 3
    /\ Len(flt.AB) = 1 /\ flt.AB[1].id = 3

\* the search text of a run is its only constraint
OnlySearch ==
    IF flt.fn = "render_table"
    THEN /\ flt.A.assignee = "All" /\ flt.A.status_val = "All" /\ flt.A.priority_val = "All"
         /\ flt.B = [assignee |-> "All", status_val |-> "All", priority_val |-> "All",
                     query |-> <<>>]
    ELSE flt.A.f_priority = "(Any)" /\ flt.A.f_status = "(Any)"

SearchQuery == IF flt.fn = "render_table" THEN QueryOf(flt.A) ELSE flt.A.search

\* C12: in both app variants, a non-empty search query keeps exactly the
\* tickets that have the lower-cased query as a substring of the lower-cased
\* string form of at least one of their fields, over every field.
C12_SearchEveryField ==
    (flt.done /\ OnlySearch /\ SearchQuery # <<>>) =>
        LET matches(row) == QueryMatches(row, SearchQuery) IN
        flt.AB = SelectSeq(flt.T, matches)

\* the search of src/customer.py alone keeps exactly those tickets
C12_RenderTableSearch ==
    flt.fn = "render_table" => C12_SearchEveryField

=============================================================================
